---- MODULE Spec2Model ----
(***************************************************************************)
(* Broadcast scheduler and delivery pipeline of src/bot.py:                *)
(*   DatabaseModels   - destination store, advertisement, schedule row     *)
(*   AsyncScheduler   - start / stop / _run (the broadcast loop)           *)
(*   AsyncMessageQueue- bounded queue, workers, _send_message              *)
(*   TelegramBot      - initialize / shutdown / _handle_add_group          *)
(* The event loop is cooperative: a step of the model is the code between  *)
(* two suspension points (await) of one coroutine.                         *)
(* A call of a DatabaseModels method is one step: its statements reach the *)
(* database together or not at all.                                        *)
(***************************************************************************)
EXTENDS Integers, Sequences, FiniteSets, TLC

\* ---------------------------------------------------------------- bounds
NumGroups == 2      \* destinations that can be registered
MaxTasks == 2       \* slots for broadcast-loop tasks (the code creates one)
MaxSize == 2        \* AsyncMessageQueue.max_size (1000 in the code)
NumWorkers == 2     \* AsyncMessageQueue.max_concurrent (5 in the code)
MaxErrors == 7      \* cap of error_count in SpecStore
MaxSends == 2       \* largest max_sends configured in Init
MaxCycles == 2      \* cap of current_sends when max_sends = 0 (unbounded)
MaxJobs == 4        \* cap of the jobs a producer of SpecQueue hands over
MaxRetryAfter == 2  \* largest retry_after the gateway answers
NumTitles == 2      \* titles a chat can carry when it is registered

\* ------------------------------------------------------ program constants
Threshold == 5      \* update_group_error: WHEN error_count >= 5
RetryCap == 3       \* _send_message: message['retries'] < 3
AdminChat == 0      \* the operator's private chat (ADMIN_ID)

Groups == 1..NumGroups
Chats == Groups \cup {AdminChat}
Workers == 1..NumWorkers
TaskIds == 1..MaxTasks
MessageType == {"text", "photo", "video", "document"}
Titles == 1..NumTitles

VARIABLES
    \* --- persisted (sqlite) ---
    groups,         \* table groups: chat_id -> [reg, is_active, error_count, title]
    listing,        \* registered chat_ids, ORDER BY added_at DESC
    ad,             \* message_type of the active advertisement, or "none"
    is_running,     \* schedule_settings.is_running
    max_sends,      \* schedule_settings.max_sends
    current_sends,  \* schedule_settings.current_sends
    \* --- process ---
    proc,           \* "down", "up", "sd_sched", "sd_queue", "sd_join"
    \* --- AsyncScheduler ---
    s_running,      \* self._running
    s_lock,         \* self._lock holder: "free", "start", "stop", "sd", "auto"
    s_task,         \* self._task: a task id, 0 for None
    tasks,          \* task id -> [pc, snap, begun, sent0] of a _run coroutine
    \* --- AsyncMessageQueue ---
    q_running,      \* self._running
    queue,          \* self._queue
    workers,        \* worker -> [st, job, timer]; job.wait is the part of
                    \* retry_after that has not passed yet
    stats,          \* self._stats: [sent, failed]
    \* --- history ---
    consec,         \* chat_id -> report_failure calls since the last success
    rejects,        \* chat_id -> permanent rejections since the last accept
    accepted,       \* jobs add_message accepted since the queue started
    wasRunning,     \* is_running when the process last began to go down
    \* --- LRUCache (AsyncScheduler._admin_cache) ---
    admin_cache,    \* [cache, timestamps]: self._cache as the sequence of
                    \* its items, oldest first, and self._timestamps
    now,            \* time.time()
    recency,        \* history: the keys read or written, least recent first
    ret,            \* history: the last cache call and what it returned
    \* --- AsyncDatabasePool ---
    db_pool,        \* [initialized, lock, pool, made, closed, contended]
    callers         \* caller -> [pc, conn, i, via, last]

dbVars == <<groups, listing, ad, is_running, max_sends, current_sends>>
schedVars == <<s_running, s_lock, s_task, tasks>>
queueVars == <<q_running, queue, workers, stats, accepted, rejects>>
vars == <<groups, listing, ad, is_running, max_sends, current_sends, proc,
          s_running, s_lock, s_task, tasks, q_running, queue, workers, stats,
          consec, rejects, accepted, wasRunning,
          admin_cache, now, recency, ret, db_pool, callers>>
cacheVars == <<admin_cache, now, recency, ret>>
poolVars == <<db_pool, callers>>
libVars == <<cacheVars, poolVars>>
appVars == <<dbVars, proc, schedVars, queueVars, consec, wasRunning>>

\* ------------------------------------------------------------ the stores
NoGroup == [reg |-> FALSE, is_active |-> FALSE, error_count |-> 0, title |-> 0]

\* UPDATE groups SET error_count = error_count + 1, is_active = CASE WHEN
\* error_count >= 5 THEN 0 ELSE is_active END WHERE chat_id = ?
\* (every right-hand side reads the row as it was before the UPDATE)
update_group_error(gs, c) ==
    IF gs[c].reg
    THEN [gs EXCEPT ![c] = [reg |-> TRUE,
                            is_active |-> IF gs[c].error_count >= Threshold
                                          THEN FALSE ELSE gs[c].is_active,
                            error_count |-> gs[c].error_count + 1,
                            title |-> gs[c].title]]
    ELSE gs

\* UPDATE groups SET error_count = 0, last_error = NULL WHERE chat_id = ?
reset_group_errors(gs, c) ==
    IF gs[c].reg THEN [gs EXCEPT ![c].error_count = 0] ELSE gs

\* INSERT OR REPLACE INTO groups (chat_id, username, title, is_active,
\* last_check) VALUES (?, ?, ?, 1, ?): the row is replaced, error_count and
\* added_at take their defaults
upsert_group(gs, c, title) ==
    [gs EXCEPT ![c] = [reg |-> TRUE, is_active |-> TRUE, error_count |-> 0, title |-> title]]

Without(s, c) == SelectSeq(s, LAMBDA x : x # c)

\* a plain INSERT: the chat's earlier row stays
upsert_listing_insert(l, c) == <<c>> \o l

upsert_listing(l, c) == <<c>> \o Without(l, c)

\* the same rows in the order of their chat ids
get_active_groups_by_id ==
    LET act == SelectSeq([i \in 1..NumGroups |-> i], LAMBDA c : groups[c].reg /\ groups[c].is_active)
    IN  [i \in 1..Len(act) |->
            [chat_id |-> act[i], error_count |-> groups[act[i]].error_count]]

\* SELECT * FROM groups WHERE is_active = 1 ORDER BY added_at DESC
get_active_groups ==
    LET act == SelectSeq(listing, LAMBDA c : groups[c].is_active)
    IN  [i \in 1..Len(act) |->
            [chat_id |-> act[i], error_count |-> groups[act[i]].error_count]]

ActiveGroups == {c \in Groups : groups[c].reg /\ groups[c].is_active}

\* --------------------------------------------------------------- Init
\* A fresh database (init_tables) holding the operator's configuration:
\* the advertisement and max_sends are inputs, the process is not started.
InitDb ==
    /\ groups = [c \in Groups |-> NoGroup]
    /\ listing = <<>>
    /\ is_running = FALSE
    /\ current_sends = 0

InitVolatile ==
    /\ s_running = FALSE
    /\ s_lock = "free"
    /\ s_task = 0
    /\ tasks = [t \in TaskIds |-> [pc |-> "none", snap |-> <<>>, begun |-> 0, sent0 |-> 0]]
    /\ q_running = FALSE
    /\ queue = <<>>
    /\ workers = [w \in Workers |-> [st |-> "dead", job |-> <<>>, timer |-> 0]]
    /\ stats = [sent |-> 0, failed |-> 0]
    /\ accepted = 0
    /\ rejects = [c \in Groups |-> 0]

InitHistory ==
    /\ consec = [c \in Groups |-> 0]
    /\ wasRunning = FALSE

\* LRUCache.__init__: an empty OrderedDict and no timestamps
NoStamp == -1

CacheKeys == 0..NumGroups

NoCall == [op |-> "none", key |-> 0, value |-> "None", lookups |-> {}]

InitCacheVars ==
    /\ admin_cache = [cache |-> <<>>, timestamps |-> [k \in CacheKeys |-> NoStamp]]
    /\ now = 0
    /\ recency = <<>>
    /\ ret = NoCall

\* AsyncDatabasePool.__init__: an empty queue, not initialized, lock free
NumCallers == 3

Callers == 1..NumCallers

Outside == [pc |-> "out", conn |-> 0, i |-> 0, via |-> "none", last |-> "none"]

InitPoolVars ==
    /\ db_pool = [initialized |-> FALSE, lock |-> 0, pool |-> <<>>, made |-> 0,
                  closed |-> {}, contended |-> FALSE]
    /\ callers = [p \in Callers |-> Outside]

InitLib == InitCacheVars /\ InitPoolVars

Init ==
    /\ InitDb /\ InitVolatile /\ InitHistory /\ InitLib
    /\ ad \in {"none", "text"}
    /\ max_sends \in 0..MaxSends
    /\ proc = "down"

\* ------------------------------------------------- SpecStore: the store
\* The operations of the destination store, called in any order.
report_failure(c) ==
    /\ groups[c].reg
    /\ groups[c].error_count < MaxErrors
    /\ groups' = update_group_error(groups, c)
    /\ consec' = [consec EXCEPT ![c] = @ + 1]
    /\ UNCHANGED <<listing, ad, is_running, max_sends, current_sends, proc,
                   schedVars, queueVars, wasRunning, libVars>>

report_success(c) ==
    /\ groups[c].reg
    /\ groups' = reset_group_errors(groups, c)
    /\ consec' = [consec EXCEPT ![c] = 0]
    /\ UNCHANGED <<listing, ad, is_running, max_sends, current_sends, proc,
                   schedVars, queueVars, wasRunning, libVars>>

upsert(c, title) ==
    /\ groups' = upsert_group(groups, c, title)
    /\ listing' = upsert_listing(listing, c)
    /\ consec' = [consec EXCEPT ![c] = 0]
    /\ UNCHANGED <<ad, is_running, max_sends, current_sends, proc,
                   schedVars, queueVars, wasRunning, libVars>>

NextStore ==
    \E c \in Groups : \/ report_failure(c)
                      \/ report_success(c)
                      \/ (\E title \in Titles : upsert(c, title))

SpecStore == Init /\ [][NextStore]_vars

\* C1: for every destination, after 5 consecutive report_failure calls with
\* no report_success in between, the destination's active flag is false.
C1_DeactivatedAtThreshold ==
    \A c \in Groups : (groups[c].reg /\ consec[c] >= Threshold) => ~groups[c].is_active

\* ------------------------------------------------ AsyncMessageQueue (1)
NoJob == <<>>

NewJob(c, k) == [chat_id |-> c, type |-> k, retries |-> 0, wait |-> 0]

\* a plain "await self._queue.put(...)": waits while the queue is full
add_message_put(c, k) ==
    /\ Len(queue) < MaxSize
    /\ queue' = Append(queue, NewJob(c, k))
    /\ accepted' = accepted + 1

\* an add_message that never enqueues
add_message_dropped(c, k) == UNCHANGED <<queue, accepted>>

\* add_message: False at once when qsize() >= max_size, else put (which
\* cannot block: nothing runs between the size test and the put)
add_message(c, k) ==
    IF Len(queue) >= MaxSize
    THEN UNCHANGED <<queue, accepted>>
    ELSE /\ queue' = Append(queue, NewJob(c, k))
         /\ accepted' = accepted + 1

\* --------------------------------------------------------- AsyncScheduler
NoTask == [pc |-> "none", snap |-> <<>>, begun |-> 0, sent0 |-> 0]

Live == {t \in TaskIds : tasks[t].pc # "none"}

FreeSlot == CHOOSE t \in TaskIds : tasks[t].pc = "none" /\ \A u \in TaskIds : tasks[u].pc = "none" => t <= u

\* asyncio.create_task(self._run())
create_task(ts) == [ts EXCEPT ![FreeSlot] = [pc |-> "top", snap |-> <<>>, begun |-> 0, sent0 |-> current_sends]]

\* stop() that leaves the loop task alone
cancel_task_skipped(ts, t) == ts

\* self._task.cancel() followed by await self._task: the cancelled _run
\* leaves through "except asyncio.CancelledError: break"
cancel_task(ts, t) == IF t = 0 THEN ts ELSE [ts EXCEPT ![t] = NoTask]

\* start() without the test of line 582
AlreadyRunning_never == FALSE

\* start(), line 582: if self._running: return
AlreadyRunning == s_running

\* start() up to "await self.db.get_schedule_config()", the lock taken
start_begin ==
    /\ proc = "up"
    /\ s_lock = "free"
    /\ ~AlreadyRunning
    /\ s_lock' = "start"
    /\ UNCHANGED <<dbVars, proc, s_running, s_task, tasks, queueVars, consec, wasRunning, libVars>>

\* start() called while running: logs and returns
start_noop ==
    /\ proc = "up"
    /\ s_lock = "free"
    /\ AlreadyRunning
    /\ UNCHANGED vars

\* start() after the await: _running = True, the loop task is created
start_finish ==
    /\ s_lock = "start"
    /\ \E t \in TaskIds : tasks[t].pc = "none"
    /\ s_running' = TRUE
    /\ tasks' = create_task(tasks)
    /\ s_task' = FreeSlot
    /\ s_lock' = "free"
    /\ UNCHANGED <<dbVars, proc, queueVars, consec, wasRunning, libVars>>

\* the command layer persists the running flag: update_schedule_running(True)
set_running ==
    /\ proc = "up"
    /\ is_running' = TRUE
    /\ UNCHANGED <<groups, listing, ad, max_sends, current_sends, proc,
                   schedVars, queueVars, consec, wasRunning, libVars>>

\* stop() without the early return
Stopped_never == FALSE

\* stop(): if not self._running: return
Stopped == ~s_running

\* stop() by caller c ("stop": the operator, "sd": shutdown) up to
\* "await self._task": _running cleared, the loop task cancelled
stop_begin(c) ==
    /\ s_lock = "free"
    /\ ~Stopped
    /\ s_running' = FALSE
    /\ tasks' = cancel_task(tasks, s_task)
    /\ s_lock' = c
    /\ UNCHANGED <<dbVars, proc, s_task, queueVars, consec, wasRunning, libVars>>

\* stop() after the task ended: update_schedule_running(False)
stop_finish(c) ==
    /\ s_lock = c
    /\ is_running' = FALSE
    /\ s_lock' = "free"
    /\ proc' = IF c = "sd" THEN "sd_queue" ELSE proc
    /\ UNCHANGED <<groups, listing, ad, max_sends, current_sends,
                   s_running, s_task, tasks, queueVars, consec, wasRunning, libVars>>

stop_op_begin == proc = "up" /\ stop_begin("stop")

stop_op_finish == stop_finish("stop")

\* stop() on a stopped scheduler: returns at "if not self._running"
stop_noop ==
    /\ proc = "up"
    /\ s_lock = "free"
    /\ Stopped
    /\ UNCHANGED vars

\* ---- _run, one coroutine per task id t ----
SetTask(t, pc, snap, begun) ==
    tasks' = [tasks EXCEPT ![t] = [pc |-> pc, snap |-> snap, begun |-> begun, sent0 |-> tasks[t].sent0]]

\* the limit test with > for >=
LimitReached_strict == max_sends > 0 /\ current_sends > max_sends

\* line 627: config.max_sends > 0 and config.current_sends >= config.max_sends
LimitReached == max_sends > 0 /\ current_sends >= max_sends

\* a pass that counts a cycle although the flag is not set
run_idle_counting(t) ==
    /\ tasks[t].pc = "top"
    /\ ~is_running
    /\ current_sends < MaxCycles
    /\ current_sends' = current_sends + 1
    /\ tasks' = [tasks EXCEPT ![t].pc = "sleep"]
    /\ UNCHANGED <<groups, listing, ad, is_running, max_sends, proc,
                   s_running, s_lock, s_task, queueVars, consec, wasRunning, libVars>>

\* not config.is_running: sleep(5), continue
run_idle(t) ==
    /\ tasks[t].pc = "top"
    /\ ~is_running
    /\ SetTask(t, "sleep", <<>>, tasks[t].begun)
    /\ UNCHANGED <<dbVars, proc, s_running, s_lock, s_task, queueVars, consec, wasRunning, libVars>>

\* the limit is reached: await self.stop() from inside the loop task.
\* stop() takes the lock, clears _running and cancels self._task; when that
\* is the running task itself, "await self._task" raises CancelledError in
\* stop(), which swallows it and goes on to the database write.
run_auto_stop(t) ==
    /\ tasks[t].pc = "top"
    /\ is_running
    /\ LimitReached
    /\ s_lock = "free"
    /\ s_running' = FALSE
    /\ s_lock' = "auto"
    /\ tasks' = [cancel_task(tasks, IF s_task = t THEN 0 ELSE s_task)
                    EXCEPT ![t] = [pc |-> "auto", snap |-> <<>>,
                                   begun |-> tasks[t].begun, sent0 |-> tasks[t].sent0]]
    /\ UNCHANGED <<dbVars, proc, s_task, queueVars, consec, wasRunning, libVars>>

\* stop() inside the task: update_schedule_running(False), lock released;
\* back in _run: continue, and the while test ends the coroutine
run_auto_stop_finish(t) ==
    /\ tasks[t].pc = "auto"
    /\ is_running' = FALSE
    /\ s_lock' = "free"
    /\ tasks' = [tasks EXCEPT ![t] = IF s_running
                                     THEN [pc |-> "top", snap |-> <<>>, begun |-> tasks[t].begun, sent0 |-> tasks[t].sent0]
                                     ELSE NoTask]
    /\ UNCHANGED <<groups, listing, ad, max_sends, current_sends, proc,
                   s_running, s_task, queueVars, consec, wasRunning, libVars>>

\* a loop that gives up when there is no advertisement
run_no_ad_giving_up(t) ==
    /\ tasks[t].pc = "top"
    /\ is_running
    /\ ~LimitReached
    /\ ad = "none"
    /\ is_running' = FALSE
    /\ tasks' = [tasks EXCEPT ![t] = NoTask]
    /\ UNCHANGED <<groups, listing, ad, max_sends, current_sends, proc,
                   s_running, s_lock, s_task, queueVars, consec, wasRunning, libVars>>

\* no active advertisement: sleep(60), continue
run_no_ad(t) ==
    /\ tasks[t].pc = "top"
    /\ is_running
    /\ ~LimitReached
    /\ ad = "none"
    /\ SetTask(t, "sleep", <<>>, tasks[t].begun)
    /\ UNCHANGED <<dbVars, proc, s_running, s_lock, s_task, queueVars, consec, wasRunning, libVars>>

\* no active group: sleep(60), continue
run_no_groups(t) ==
    /\ tasks[t].pc = "top"
    /\ is_running
    /\ ~LimitReached
    /\ ad # "none"
    /\ get_active_groups = <<>>
    /\ SetTask(t, "sleep", <<>>, tasks[t].begun)
    /\ UNCHANGED <<dbVars, proc, s_running, s_lock, s_task, queueVars, consec, wasRunning, libVars>>

\* a dispatch cycle begins: groups = await self.db.get_active_groups()
run_dispatch(t) ==
    /\ tasks[t].pc = "top"
    /\ is_running
    /\ ~LimitReached
    /\ ad # "none"
    /\ get_active_groups # <<>>
    /\ max_sends = 0 => current_sends < MaxCycles
    /\ SetTask(t, "loop", get_active_groups, tasks[t].begun + 1)
    /\ UNCHANGED <<dbVars, proc, s_running, s_lock, s_task, queueVars, consec, wasRunning, libVars>>

\* one pass of "for group in groups"; is_admin is the answer of
\* _check_admin_cached (False also when the lookup fails)
run_group(t, is_admin) ==
    /\ tasks[t].pc = "loop"
    /\ tasks[t].snap # <<>>
    /\ LET g == Head(tasks[t].snap) IN
       IF ~s_running
       THEN /\ SetTask(t, "loop", <<>>, tasks[t].begun)
            /\ UNCHANGED <<groups, consec, queue, accepted>>
       ELSE /\ SetTask(t, "loop", Tail(tasks[t].snap), tasks[t].begun)
            /\ IF ~is_admin
               THEN /\ groups' = update_group_error(groups, g.chat_id)
                    /\ consec' = [consec EXCEPT ![g.chat_id] = @ + 1]
                    /\ UNCHANGED <<queue, accepted>>
               ELSE /\ IF g.error_count > 0
                       THEN /\ groups' = reset_group_errors(groups, g.chat_id)
                            /\ consec' = [consec EXCEPT ![g.chat_id] = 0]
                       ELSE UNCHANGED <<groups, consec>>
                    /\ add_message(g.chat_id, ad)
    /\ UNCHANGED <<listing, ad, is_running, max_sends, current_sends, proc,
                   s_running, s_lock, s_task, q_running, workers, stats, rejects, wasRunning, libVars>>

\* a cycle that leaves the counter as it was
increment_send_count_lost == current_sends

\* a count of destinations instead of cycles
increment_send_count_per_group == current_sends + Cardinality(ActiveGroups)

\* UPDATE schedule_settings SET current_sends = current_sends + 1
increment_send_count == current_sends + 1

\* after the for loop: increment_send_count(), then sleep(interval)
run_increment(t) ==
    /\ tasks[t].pc = "loop"
    /\ tasks[t].snap = <<>>
    /\ current_sends' = increment_send_count
    /\ SetTask(t, "sleep", <<>>, tasks[t].begun)
    /\ UNCHANGED <<groups, listing, ad, is_running, max_sends, proc,
                   s_running, s_lock, s_task, queueVars, consec, wasRunning, libVars>>

\* a sleep ends; "while self._running" is tested, then the loop awaits
\* get_schedule_config()
run_wake(t) ==
    /\ tasks[t].pc = "sleep"
    /\ IF s_running
       THEN SetTask(t, "top", <<>>, tasks[t].begun)
       ELSE tasks' = [tasks EXCEPT ![t] = NoTask]
    /\ UNCHANGED <<dbVars, proc, s_running, s_lock, s_task, queueVars, consec, wasRunning, libVars>>

SchedStep(t) ==
    \/ run_idle(t) \/ run_auto_stop(t) \/ run_auto_stop_finish(t)
    \/ run_no_ad(t) \/ run_no_groups(t) \/ run_dispatch(t)
    \/ (\E a \in BOOLEAN : run_group(t, a)) \/ run_increment(t) \/ run_wake(t)

\* ------------------------------------------------------------ TelegramBot
\* initialize(): init_tables, queue.start(), and scheduler.start() when the
\* persisted flag is set. It runs alone, before any update is served.
initialize ==
    /\ proc = "down"
    /\ proc' = "up"
    /\ q_running' = TRUE
    /\ workers' = [w \in Workers |-> [st |-> "idle", job |-> NoJob, timer |-> 0]]
    /\ IF is_running
       THEN /\ s_running' = TRUE
            /\ tasks' = create_task(tasks)
            /\ s_task' = FreeSlot
       ELSE UNCHANGED <<s_running, tasks, s_task>>
    /\ UNCHANGED <<dbVars, s_lock, queue, stats, accepted, rejects, consec, wasRunning, libVars>>

ResetVolatile ==
    /\ s_running' = FALSE
    /\ s_lock' = "free"
    /\ s_task' = 0
    /\ tasks' = [t \in TaskIds |-> NoTask]
    /\ q_running' = FALSE
    /\ queue' = <<>>
    /\ workers' = [w \in Workers |-> [st |-> "dead", job |-> NoJob, timer |-> 0]]
    /\ stats' = [sent |-> 0, failed |-> 0]
    /\ accepted' = 0
    /\ rejects' = [c \in Groups |-> 0]

BroadcastRunning == is_running /\ s_running /\ Live # {}

\* the process dies without shutdown(): only the database survives
crash ==
    /\ proc # "down"
    /\ proc' = "down"
    /\ ResetVolatile
    /\ wasRunning' = IF proc = "up" THEN BroadcastRunning ELSE wasRunning
    /\ UNCHANGED <<dbVars, consec, libVars>>

\* shutdown() is entered (the server has stopped serving updates)
shutdown_begin ==
    /\ proc = "up"
    /\ proc' = "sd_sched"
    /\ wasRunning' = BroadcastRunning
    /\ UNCHANGED <<dbVars, schedVars, queueVars, consec, libVars>>

\* shutdown(): await self.scheduler.stop()
shutdown_stop_begin == proc = "sd_sched" /\ stop_begin("sd")

shutdown_stop_finish == stop_finish("sd")

shutdown_stop_noop ==
    /\ proc = "sd_sched"
    /\ s_lock = "free"
    /\ Stopped
    /\ proc' = "sd_queue"
    /\ UNCHANGED <<dbVars, schedVars, queueVars, consec, wasRunning, libVars>>

\* shutdown(): queue.stop() finding the queue empty (no join), workers
\* cancelled, close_all(); the process ends
shutdown_queue_empty ==
    /\ proc = "sd_queue"
    /\ queue = <<>>
    /\ proc' = "down"
    /\ ResetVolatile
    /\ UNCHANGED <<dbVars, consec, wasRunning, libVars>>

\* shutdown(): queue.stop() finding jobs queued: _running cleared, then
\* await self._queue.join()
shutdown_queue_join ==
    /\ proc = "sd_queue"
    /\ queue # <<>>
    /\ proc' = "sd_join"
    /\ q_running' = FALSE
    /\ UNCHANGED <<dbVars, schedVars, queue, workers, stats, accepted, rejects, consec, wasRunning, libVars>>

\* a registration that stores the group whatever the gateway answered
add_group_unchecked(c, ok, title) ==
    /\ proc = "up"
    /\ groups' = upsert_group(groups, c, title)
    /\ listing' = upsert_listing(listing, c)
    /\ consec' = [consec EXCEPT ![c] = 0]
    /\ add_message(AdminChat, "text")
    /\ UNCHANGED <<ad, is_running, max_sends, current_sends, proc, schedVars,
                   q_running, workers, stats, rejects, wasRunning, libVars>>

\* _handle_add_group: ok says whether getChat and getChatMember answered
\* and the status was administrator or creator; every path replies to the
\* operator through the queue
add_group(c, ok, title) ==
    /\ proc = "up"
    /\ IF ok
       THEN /\ groups' = upsert_group(groups, c, title)
            /\ listing' = upsert_listing(listing, c)
            /\ consec' = [consec EXCEPT ![c] = 0]
       ELSE UNCHANGED <<groups, listing, consec>>
    /\ add_message(AdminChat, "text")
    /\ UNCHANGED <<ad, is_running, max_sends, current_sends, proc, schedVars,
                   q_running, workers, stats, rejects, wasRunning, libVars>>

\* ---------------------------------------------------- Spec: the control
\* The scheduler, the stores and the process life cycle under every
\* interleaving of operator commands. The queue workers write neither the
\* stores nor the scheduler, and are left to SpecQueue and SpecPipe. The
\* chats keep one title here; SpecStore registers them under every title.
Next ==
    \/ initialize \/ crash
    \/ shutdown_begin \/ shutdown_stop_begin \/ shutdown_stop_finish
    \/ shutdown_stop_noop \/ shutdown_queue_empty \/ shutdown_queue_join
    \/ set_running \/ start_begin \/ start_noop \/ start_finish
    \/ stop_op_begin \/ stop_op_finish \/ stop_noop
    \/ (\E c \in Groups, ok \in BOOLEAN : add_group(c, ok, 1))
    \/ (\E t \in TaskIds : SchedStep(t))

Spec == Init /\ [][Next]_vars

TypeOK ==
    /\ proc \in {"down", "up", "sd_sched", "sd_queue", "sd_join"}
    /\ s_lock \in {"free", "start", "stop", "sd", "auto"}
    /\ s_task \in 0..MaxTasks
    /\ current_sends \in Nat

\* ------------------------------------------- FairSpec: a run to completion
\* The process does not crash, and the event loop runs every coroutine that
\* is ready: the loop task and a start() or stop() that holds the lock.
NextLive ==
    \/ initialize
    \/ shutdown_begin \/ shutdown_stop_begin \/ shutdown_stop_finish
    \/ shutdown_stop_noop \/ shutdown_queue_empty \/ shutdown_queue_join
    \/ set_running \/ start_begin \/ start_noop \/ start_finish
    \/ stop_op_begin \/ stop_op_finish \/ stop_noop
    \/ (\E c \in Groups, ok \in BOOLEAN : add_group(c, ok, 1))
    \/ (\E t \in TaskIds : SchedStep(t))

FairSpec ==
    /\ Init /\ [][NextLive]_vars
    /\ WF_vars(\E t \in TaskIds : SchedStep(t))
    /\ WF_vars(start_finish)
    /\ WF_vars(stop_op_finish)
    /\ WF_vars(shutdown_stop_finish)

\* a loop started with sent_count = 0 has begun at most max_sends cycles
C2_CyclesBounded ==
    \A t \in TaskIds :
        (tasks[t].pc # "none" /\ max_sends > 0 /\ tasks[t].sent0 = 0)
            => tasks[t].begun <= max_sends

\* with the limit reached, the loop clears the persisted running flag
C2_ThenStopped ==
    (Live # {} /\ LimitReached /\ is_running) ~> ~is_running

\* C2: for max_sends = N > 0, a loop started with sent_count = 0 begins at
\* most N dispatch cycles, also when destinations are added meanwhile, and
\* once N is reached the persisted running flag becomes false.
C2_AtMostNCyclesThenStopped == []C2_CyclesBounded /\ C2_ThenStopped

C2_Witness ==
    \E t \in TaskIds :
        /\ tasks[t].pc = "auto" /\ tasks[t].sent0 = 0
        /\ max_sends = MaxSends /\ tasks[t].begun = max_sends
        /\ Len(listing) = NumGroups

\* C3: whenever max_sends > 0, sent_count <= max_sends.
C3_SentWithinMax == max_sends > 0 => current_sends <= max_sends

C3_Witness ==
    /\ max_sends > 0 /\ current_sends = max_sends
    /\ proc = "up" /\ ~is_running /\ ~s_running /\ Live = {} /\ s_lock = "free"
    /\ s_task # 0

\* C8: when a broadcast is running as the process goes down (shutdown or
\* crash), the next startup finds the running flag set and starts the loop.
C8_ResumeAfterRestart ==
    [][(initialize /\ wasRunning) => (is_running' /\ Live' # {})]_vars

\* C9: start() goes on to create the loop only when there is an active
\* advertisement and an active destination.
C9_StartNeedsAdAndGroup ==
    [][start_begin => (ad # "none" /\ ActiveGroups # {})]_vars

\* C10: at most one broadcast loop task is live.
C10_OneLoop == Cardinality(Live) <= 1

\* start() is called with the loop running (start_noop applies and leaves
\* the state as it is)
C10_Witness ==
    /\ proc = "up" /\ s_lock = "free" /\ AlreadyRunning
    /\ Cardinality(Live) = 1 /\ current_sends > 0

\* ------------------------------------------------ AsyncMessageQueue (2)
SetWorker(w, st, job) == workers' = [workers EXCEPT ![w] = [st |-> st, job |-> job, timer |-> 0]]

\* task_done() and back to "while self._running": the worker waits in
\* get() again, or ends when the queue has been told to stop
Rest == IF q_running THEN "idle" ELSE "dead"

Busy == {w \in Workers : workers[w].st \in {"post", "sleep", "put"}}

InFlight == Len(queue) + Cardinality(Busy)

\* _send_message builds url and data for "text" and "photo" only
HasHandler(k) == k \in {"text", "photo"}

\* _worker: message = await wait_for(self._queue.get()); _send_message
\* posts it to the gateway. For a type without a handler, data is unbound:
\* the exception is counted as failed and the worker calls task_done().
dequeue(w) ==
    /\ workers[w].st = "idle"
    /\ queue # <<>>
    /\ queue' = Tail(queue)
    /\ IF HasHandler(Head(queue).type)
       THEN /\ SetWorker(w, "post", Head(queue))
            /\ UNCHANGED stats
       ELSE /\ stats' = [stats EXCEPT !.failed = @ + 1]
            /\ SetWorker(w, Rest, NoJob)
    /\ UNCHANGED <<dbVars, proc, schedVars, q_running, accepted, rejects, consec, wasRunning, libVars>>

NoteAccept(c) == IF c \in Groups THEN [rejects EXCEPT ![c] = 0] ELSE rejects

NoteReject(c) == IF c \in Groups THEN [rejects EXCEPT ![c] = @ + 1] ELSE rejects

\* result['ok']: self._stats['sent'] += 1
respond_ok(w) ==
    /\ workers[w].st = "post"
    /\ stats' = [stats EXCEPT !.sent = @ + 1]
    /\ rejects' = NoteAccept(workers[w].job.chat_id)
    /\ SetWorker(w, Rest, NoJob)
    /\ UNCHANGED <<dbVars, proc, schedVars, q_running, queue, accepted, consec, wasRunning, libVars>>

\* error_code in [400, 403, 404]: self._stats['failed'] += 1; return
respond_permanent(w) ==
    /\ workers[w].st = "post"
    /\ stats' = [stats EXCEPT !.failed = @ + 1]
    /\ rejects' = NoteReject(workers[w].job.chat_id)
    /\ SetWorker(w, Rest, NoJob)
    /\ UNCHANGED <<dbVars, proc, schedVars, q_running, queue, accepted, consec, wasRunning, libVars>>

\* another error_code, or an exception that is no timeout: failed += 1
respond_other(w) ==
    /\ workers[w].st = "post"
    /\ stats' = [stats EXCEPT !.failed = @ + 1]
    /\ SetWorker(w, Rest, NoJob)
    /\ UNCHANGED <<dbVars, proc, schedVars, q_running, queue, accepted, rejects, consec, wasRunning, libVars>>

\* line 529 and line 550: message['retries'] < 3
MayRetry(job) == job.retries < RetryCap

\* await asyncio.sleep(retry_after): how long the worker sleeps
retry_sleep(r) == r

\* await self._queue.put(message) by worker w: blocks while the queue is full
put_back(w, job) ==
    IF Len(queue) < MaxSize
    THEN /\ queue' = Append(queue, job)
         /\ SetWorker(w, Rest, NoJob)
    ELSE /\ SetWorker(w, "put", job)
         /\ UNCHANGED queue

\* error_code == 429 with retry_after = r: retries += 1, sleep(r), put;
\* with the retries used up the job is dropped and nothing is counted
respond_rate_limited(w, r) ==
    /\ workers[w].st = "post"
    /\ IF MayRetry(workers[w].job)
       THEN workers' = [workers EXCEPT ![w] =
                [st |-> "sleep",
                 job |-> [workers[w].job EXCEPT !.retries = @ + 1, !.wait = r],
                 timer |-> retry_sleep(r)]]
       ELSE SetWorker(w, Rest, NoJob)
    /\ UNCHANGED <<dbVars, proc, schedVars, q_running, queue, stats, accepted, rejects, consec, wasRunning, libVars>>

\* asyncio.TimeoutError: retries += 1 and put at once; with the retries
\* used up the job is dropped and nothing is counted
respond_timeout(w) ==
    /\ workers[w].st = "post"
    /\ IF MayRetry(workers[w].job)
       THEN put_back(w, [workers[w].job EXCEPT !.retries = @ + 1])
       ELSE /\ SetWorker(w, Rest, NoJob)
            /\ UNCHANGED queue
    /\ UNCHANGED <<dbVars, proc, schedVars, q_running, stats, accepted, rejects, consec, wasRunning, libVars>>

\* the sleep is over: await self._queue.put(message)
wake(w) ==
    /\ workers[w].st = "sleep"
    /\ workers[w].timer = 0
    /\ put_back(w, workers[w].job)
    /\ UNCHANGED <<dbVars, proc, schedVars, q_running, stats, accepted, rejects, consec, wasRunning, libVars>>

\* a put that was blocked goes through once the queue has room
put_retry(w) ==
    /\ workers[w].st = "put"
    /\ Len(queue) < MaxSize
    /\ queue' = Append(queue, workers[w].job)
    /\ SetWorker(w, Rest, NoJob)
    /\ UNCHANGED <<dbVars, proc, schedVars, q_running, stats, accepted, rejects, consec, wasRunning, libVars>>

Dec(n) == IF n > 0 THEN n - 1 ELSE 0

Aged(job) == IF job = NoJob THEN NoJob ELSE [job EXCEPT !.wait = Dec(@)]

\* one unit of time passes
tick ==
    /\ \/ \E w \in Workers : workers[w].timer > 0 \/ (workers[w].job # NoJob /\ workers[w].job.wait > 0)
       \/ \E i \in 1..Len(queue) : queue[i].wait > 0
    /\ workers' = [w \in Workers |-> [st |-> workers[w].st, job |-> Aged(workers[w].job),
                                      timer |-> Dec(workers[w].timer)]]
    /\ queue' = [i \in 1..Len(queue) |-> Aged(queue[i])]
    /\ UNCHANGED <<dbVars, proc, schedVars, q_running, stats, accepted, rejects, consec, wasRunning, libVars>>

WorkerStep(w) ==
    \/ dequeue(w) \/ respond_ok(w) \/ respond_permanent(w) \/ respond_other(w)
    \/ (\E r \in 1..MaxRetryAfter : respond_rate_limited(w, r))
    \/ respond_timeout(w) \/ wake(w) \/ put_retry(w)

\* ------------------------------------------------- SpecQueue: the queue
\* The queue and its workers after a restart, the scheduler not running;
\* jobs are handed over by any caller of add_message.
InitQueue ==
    /\ groups = [c \in Groups |-> [reg |-> TRUE, is_active |-> TRUE, error_count |-> 0, title |-> 1]]
    /\ listing = [i \in 1..NumGroups |-> NumGroups + 1 - i]
    /\ ad \in {"text", "video"}
    /\ is_running = FALSE
    /\ max_sends = 0
    /\ current_sends = 0
    /\ proc = "up"
    /\ s_running = FALSE
    /\ s_lock = "free"
    /\ s_task = 0
    /\ tasks = [t \in TaskIds |-> NoTask]
    /\ q_running = TRUE
    /\ queue = <<>>
    /\ workers = [w \in Workers |-> [st |-> "idle", job |-> NoJob, timer |-> 0]]
    /\ stats = [sent |-> 0, failed |-> 0]
    /\ accepted = 0
    /\ rejects = [c \in Groups |-> 0]
    /\ InitHistory /\ InitLib

produce(c) ==
    /\ proc = "up"
    /\ accepted < MaxJobs
    /\ add_message(c, IF c = AdminChat THEN "text" ELSE ad)
    /\ UNCHANGED <<dbVars, proc, schedVars, q_running, workers, stats, rejects, consec, wasRunning, libVars>>

NextQueue ==
    \/ (\E c \in Chats : produce(c))
    \/ (\E w \in Workers : WorkerStep(w))
    \/ tick

SpecQueue == InitQueue /\ [][NextQueue]_vars

\* The event loop runs every worker that is ready, and time passes.
FairQueue ==
    /\ InitQueue /\ [][NextQueue]_vars
    /\ \A w \in Workers : WF_vars(WorkerStep(w))
    /\ WF_vars(tick)

\* C4: a permanent error adds to the destination's error counter, and an
\* accepted delivery resets it to 0.
C4_OutcomeReported ==
    [][\A w \in Workers :
        LET c == workers[w].job.chat_id IN
        /\ (respond_permanent(w) /\ c \in Groups) => groups'[c].error_count = groups[c].error_count + 1
        /\ (respond_ok(w) /\ c \in Groups) => groups'[c].error_count = 0]_vars

\* C6: every accepted job is queued, in a worker's hands, or counted once
\* as sent or failed.
C6_OneOutcomePerJob == accepted = stats.sent + stats.failed + InFlight

\* a job is posted only when the retry_after of its last answer has passed
C7_NotEarly == \A w \in Workers : workers[w].st = "post" => workers[w].job.wait = 0

\* a job put to sleep for a retry reaches the gateway again
C7_PresentedAgain ==
    \A c \in Chats, k \in 1..RetryCap :
        (\E w \in Workers : workers[w].st = "sleep" /\ workers[w].job.chat_id = c /\ workers[w].job.retries = k)
        ~> (\E w \in Workers : workers[w].st = "post" /\ workers[w].job.chat_id = c /\ workers[w].job.retries = k)

\* C7: after "too many requests, retry_after = r" below the retry cap, the
\* job is presented again, and not before r units of time have passed.
C7_RetryAfterHonoured == []C7_NotEarly /\ C7_PresentedAgain

\* ---------------------------------------- SpecPipe: loop, queue, gateway
\* The state initialize() leaves after a restart with the running flag set:
\* one destination registered, the loop task created, the workers idle. No
\* operator command follows.
InitPipe ==
    /\ groups = [c \in Groups |-> IF c = 1 THEN [reg |-> TRUE, is_active |-> TRUE, error_count |-> 0, title |-> 1]
                                             ELSE NoGroup]
    /\ listing = <<1>>
    /\ ad = "text"
    /\ is_running = TRUE
    /\ max_sends = Threshold + 1
    /\ current_sends = 0
    /\ proc = "up"
    /\ s_running = TRUE
    /\ s_lock = "free"
    /\ s_task = 1
    /\ tasks = [t \in TaskIds |-> IF t = 1 THEN [pc |-> "top", snap |-> <<>>, begun |-> 0, sent0 |-> 0]
                                           ELSE NoTask]
    /\ q_running = TRUE
    /\ queue = <<>>
    /\ workers = [w \in Workers |-> [st |-> "idle", job |-> NoJob, timer |-> 0]]
    /\ stats = [sent |-> 0, failed |-> 0]
    /\ accepted = 0
    /\ rejects = [c \in Groups |-> 0]
    /\ InitHistory /\ InitLib

NextPipe ==
    \/ (\E t \in TaskIds : \/ run_auto_stop(t)
                           \/ run_auto_stop_finish(t)
                           \/ run_dispatch(t)
                           \/ run_group(t, TRUE)
                           \/ run_increment(t)
                           \/ run_wake(t))
    \/ (\E w \in Workers : WorkerStep(w))
    \/ tick

SpecPipe == InitPipe /\ [][NextPipe]_vars

\* C5: when Threshold cycles have completed, each has enqueued one delivery
\* to a destination, and the gateway has rejected every one of them with a
\* permanent error, the destination is inactive and the next cycle's
\* destination list does not hold it.
C5_RejectedFiveTimesInactive ==
    \A c \in Groups :
        (rejects[c] = Threshold /\ accepted = Threshold /\ current_sends = Threshold) =>
            /\ ~groups[c].is_active
            /\ \A t \in TaskIds : \A i \in 1..Len(tasks[t].snap) : tasks[t].snap[i].chat_id # c

\* ------------------------------------------------- claims on stop()
\* C11: stop() on a stopped scheduler changes nothing: no loop task exists
\* then, and the call leaves the persisted running flag, sent_count and
\* every other variable as they were.
C11_StopWhenStoppedIsNoop ==
    /\ []((~s_running /\ s_lock = "free") => Live = {})
    /\ [][((stop_op_begin \/ stop_noop) /\ ~s_running) => UNCHANGED vars]_vars

\* stop() can be called on a stopped scheduler whose persisted flag is set
\* and whose counter has advanced
C11_Witness ==
    /\ ENABLED stop_noop
    /\ is_running /\ current_sends > 0 /\ Live = {}

\* ------------------------------------------- claims on the destination store
\* the listing names each registered chat once, and no other chat
C12_OneRecordPerChat ==
    /\ \A i, j \in 1..Len(listing) : listing[i] = listing[j] => i = j
    /\ {listing[i] : i \in 1..Len(listing)} = {c \in Groups : groups[c].reg}

\* C12: after any sequence of upsert calls the store holds one record per
\* chat, and an upsert of a chat, suspended or not, leaves it active with
\* error counter 0 and the title of that call.
C12_UpsertIdempotent ==
    /\ []C12_OneRecordPerChat
    /\ [][\A c \in Groups, title \in Titles :
            upsert(c, title) =>
                groups'[c] = [reg |-> TRUE, is_active |-> TRUE, error_count |-> 0, title |-> title]]_vars

\* a suspended chat, registered under one title, stands behind another chat
\* in the listing: its upsert under the other title is the next call
C12_Witness ==
    \E c \in Groups :
        /\ groups[c].reg /\ ~groups[c].is_active /\ groups[c].error_count > Threshold
        /\ groups[c].title = 1
        /\ Len(listing) = NumGroups /\ listing[1] # c

\* ------------------------------- SpecCycle: a broadcast with its deliveries
\* A broadcast that has just been started (running flag set, loop task
\* created, sent_count 0) over one or all of the destinations, with the
\* workers serving the queue. The gateway answers with ok, an error, or
\* "too many requests, retry_after = 1".
InitCycle ==
    /\ \E n \in 1..NumGroups :
         /\ groups = [c \in Groups |-> IF c <= n
                        THEN [reg |-> TRUE, is_active |-> TRUE, error_count |-> 0, title |-> 1]
                        ELSE NoGroup]
         /\ listing = [i \in 1..n |-> n + 1 - i]
    /\ ad = "text"
    /\ is_running = TRUE
    /\ max_sends \in 1..MaxSends
    /\ current_sends = 0
    /\ proc = "up"
    /\ s_running = TRUE
    /\ s_lock = "free"
    /\ s_task = 1
    /\ tasks = [t \in TaskIds |-> IF t = 1 THEN [pc |-> "top", snap |-> <<>>, begun |-> 0, sent0 |-> 0]
                                           ELSE NoTask]
    /\ q_running = TRUE
    /\ queue = <<>>
    /\ workers = [w \in Workers |-> [st |-> "idle", job |-> NoJob, timer |-> 0]]
    /\ stats = [sent |-> 0, failed |-> 0]
    /\ accepted = 0
    /\ rejects = [c \in Groups |-> 0]
    /\ InitHistory /\ InitLib

LoopStep(t) ==
    \/ run_auto_stop(t) \/ run_auto_stop_finish(t) \/ run_dispatch(t)
    \/ (\E a \in BOOLEAN : run_group(t, a)) \/ run_increment(t) \/ run_wake(t)

ServeStep(w) ==
    \/ dequeue(w) \/ respond_ok(w) \/ respond_permanent(w) \/ respond_other(w)
    \/ respond_rate_limited(w, 1) \/ wake(w) \/ put_retry(w)

NextCycle ==
    \/ (\E t \in TaskIds : LoopStep(t))
    \/ (\E w \in Workers : ServeStep(w))
    \/ tick

SpecCycle == InitCycle /\ [][NextCycle]_vars

\* The event loop runs the loop task and every worker that is ready, and
\* time passes.
FairCycle ==
    /\ InitCycle /\ [][NextCycle]_vars
    /\ WF_vars(\E t \in TaskIds : LoopStep(t))
    /\ \A w \in Workers : WF_vars(ServeStep(w))
    /\ WF_vars(tick)

\* ------------------------- SpecIso: one cycle, with the handlers' replies
\* One dispatch cycle over all the destinations (max_sends = 1), while the
\* handlers reply to the operator through the same queue.
InitIso ==
    /\ groups = [c \in Groups |-> [reg |-> TRUE, is_active |-> TRUE, error_count |-> 0, title |-> 1]]
    /\ listing = [i \in 1..NumGroups |-> NumGroups + 1 - i]
    /\ ad = "text"
    /\ is_running = TRUE
    /\ max_sends = 1
    /\ current_sends = 0
    /\ proc = "up"
    /\ s_running = TRUE
    /\ s_lock = "free"
    /\ s_task = 1
    /\ tasks = [t \in TaskIds |-> IF t = 1 THEN [pc |-> "top", snap |-> <<>>, begun |-> 0, sent0 |-> 0]
                                           ELSE NoTask]
    /\ q_running = TRUE
    /\ queue = <<>>
    /\ workers = [w \in Workers |-> [st |-> "idle", job |-> NoJob, timer |-> 0]]
    /\ stats = [sent |-> 0, failed |-> 0]
    /\ accepted = 0
    /\ rejects = [c \in Groups |-> 0]
    /\ InitHistory /\ InitLib

NextIso ==
    \/ (\E t \in TaskIds : LoopStep(t))
    \/ (\E w \in Workers : ServeStep(w))
    \/ tick
    \/ produce(AdminChat)

SpecIso == InitIso /\ [][NextIso]_vars

FairIso ==
    /\ InitIso /\ [][NextIso]_vars
    /\ WF_vars(\E t \in TaskIds : LoopStep(t))
    /\ \A w \in Workers : WF_vars(ServeStep(w))
    /\ WF_vars(tick)

\* C13: add_message on a full queue returns at once and leaves the queue as
\* it is, whoever calls it and whatever the workers do meanwhile; the loop
\* is never kept waiting by it and goes on with the destinations that are
\* left in the cycle.
C13_FullQueueRejectsAtOnce ==
    /\ [](\A t \in TaskIds :
            (tasks[t].pc = "loop" /\ tasks[t].snap # <<>>) => ENABLED run_group(t, TRUE))
    /\ [][\A t \in TaskIds :
            (run_group(t, TRUE) /\ Len(queue) >= MaxSize)
                => /\ UNCHANGED <<queue, accepted>>
                   /\ tasks'[t].snap = Tail(tasks[t].snap)]_vars
    /\ [](accepted < MaxJobs => ENABLED produce(AdminChat))
    /\ [][(produce(AdminChat) /\ Len(queue) >= MaxSize) => UNCHANGED <<queue, accepted>>]_vars

\* the loop meets a full queue with a destination behind the one it is at,
\* while a worker waits to put a job back
C13_Witness ==
    /\ Len(queue) >= MaxSize
    /\ \E t \in TaskIds : tasks[t].pc = "loop" /\ Len(tasks[t].snap) = 2
    /\ \E w \in Workers : workers[w].st = "put"

\* a worker that meets an error goes back to serving, and leaves the queue,
\* the other workers and the loop as they are; a destination that fails in
\* the loop leaves the rest of the cycle's list in place
C14_FailureTouchesNothingElse ==
    [][/\ \A w \in Workers :
            (respond_permanent(w) \/ respond_other(w))
                => /\ workers'[w].st = "idle"
                   /\ \A v \in Workers \ {w} : workers'[v] = workers[v]
                   /\ UNCHANGED <<queue, tasks, s_running>>
       /\ \A t \in TaskIds :
            run_group(t, FALSE) => tasks'[t].snap = Tail(tasks[t].snap)]_vars

\* once a destination's delivery has failed permanently, a job of the same
\* cycle that waits in the queue for its first attempt reaches the gateway
C14_SiblingsPresented ==
    \A c, d \in Groups :
        (c # d /\ rejects[c] > 0
            /\ \E i \in 1..Len(queue) : queue[i].chat_id = d /\ queue[i].retries = 0)
        ~> (\E w \in Workers : workers[w].st = "post" /\ workers[w].job.chat_id = d)

\* C14: a permanent failure or an exception on one destination stops
\* neither the worker nor the cycle: every other job of the cycle is still
\* taken by a worker and presented to the gateway.
C14_FailureIsolated == C14_FailureTouchesNothingElse /\ C14_SiblingsPresented

\* ------------------- FairPlain: a broadcast without transient failures
\* The broadcast of InitCycle when the bot is admin of every destination
\* and the gateway answers every job with ok or with an error: no job is
\* retried.
PlainLoopStep(t) ==
    \/ run_auto_stop(t) \/ run_auto_stop_finish(t) \/ run_dispatch(t)
    \/ run_group(t, TRUE) \/ run_increment(t) \/ run_wake(t)

PlainServeStep(w) ==
    \/ dequeue(w) \/ respond_ok(w) \/ respond_permanent(w) \/ respond_other(w)

NextPlain ==
    \/ (\E t \in TaskIds : PlainLoopStep(t))
    \/ (\E w \in Workers : PlainServeStep(w))

FairPlain ==
    /\ InitCycle /\ [][NextPlain]_vars
    /\ WF_vars(\E t \in TaskIds : PlainLoopStep(t))
    /\ \A w \in Workers : WF_vars(PlainServeStep(w))

\* the broadcast is over and every job has had its answer
C15_Done ==
    /\ Live = {} /\ queue = <<>>
    /\ \A w \in Workers : workers[w].st = "idle"

\* a cycle lists the active destinations in the store's order
C15_ListedInOrder ==
    [][\A t \in TaskIds :
        run_dispatch(t) =>
            LET act == SelectSeq(listing, LAMBDA c : groups[c].is_active) IN
            /\ Len(tasks'[t].snap) = Len(act)
            /\ \A i \in 1..Len(act) : tasks'[t].snap[i].chat_id = act[i]]_vars

\* with one destination and max_sends = 2 the broadcast ends with
\* sent_count = 2, running false and 2 jobs answered by the gateway
C15_Scenario ==
    (Len(listing) = 1 /\ max_sends = 2) =>
        /\ <>[](C15_Done /\ current_sends = 2 /\ ~is_running
                  /\ accepted = 2 /\ stats.sent + stats.failed = 2)
        /\ [](accepted <= 2)

\* C15 as stated: every pass of the cycle over an admin-verified destination
\* enqueues one job for it
C15_OneJobPerDestination ==
    /\ C15_ListedInOrder
    /\ [][\A t \in TaskIds :
            run_group(t, TRUE) =>
                /\ queue' = Append(queue, NewJob(Head(tasks[t].snap).chat_id, ad))
                /\ tasks'[t].snap = Tail(tasks[t].snap)]_vars
    /\ C15_Scenario

\* C15: a cycle takes the active destinations in the store's listing order
\* and enqueues one job for each admin-verified one, or none when the queue
\* is full; with one destination and max_sends = 2 the gateway sees 2
\* attempts, and then sent_count = 2 and running is false.
C15_OneJobPerDestinationIfRoom ==
    /\ C15_ListedInOrder
    /\ [][\A t \in TaskIds :
            run_group(t, TRUE) =>
                /\ queue' = IF Len(queue) < MaxSize
                             THEN Append(queue, NewJob(Head(tasks[t].snap).chat_id, ad))
                             ELSE queue
                /\ tasks'[t].snap = Tail(tasks[t].snap)]_vars
    /\ C15_Scenario

\* the second cycle over two destinations has passed the first of them
C15_Witness ==
    /\ Len(listing) = NumGroups /\ current_sends = 1
    /\ \E t \in TaskIds : tasks[t].pc = "loop" /\ tasks[t].begun = 2 /\ Len(tasks[t].snap) = 1
    /\ accepted = 3

\* ------------------------------------------------ claims on the loop
\* start() has returned: the scheduler runs and its loop task is alive
C16_Started == proc = "up" /\ s_running /\ s_lock = "free" /\ Live # {}

\* C16: after start(), with an active advertisement and an active
\* destination, the limit not reached, a dispatch cycle is completed
\* (sent_count goes up) unless the scheduler is stopped or the process
\* goes down.
C16_CycleAfterStart ==
    \A n \in 0..MaxCycles :
        (/\ C16_Started /\ ad # "none" /\ ActiveGroups # {}
         /\ ~LimitReached /\ current_sends = n /\ n < MaxCycles)
        ~> (current_sends = n + 1 \/ ~s_running \/ proc # "up")

\* C17: a loop task ends only in a step of stop() called by the operator or
\* by shutdown(), or with the process; reaching max_sends does not end it.
C17_LoopEndsOnlyByStop ==
    [][\A t \in TaskIds :
        (tasks[t].pc # "none" /\ tasks'[t].pc = "none")
            => (stop_op_begin \/ shutdown_stop_begin \/ proc' = "down")]_vars

\* C18: when stop() returns, or releases the lock after an auto-stop, the
\* loop task has ended and the persisted running flag is false; from then
\* on no loop step enqueues a job or increments sent_count until start()
\* or initialize() creates a loop again.
C18_StoppedMeansStopped ==
    /\ [][(stop_op_finish \/ \E t \in TaskIds : run_auto_stop_finish(t))
            => (Live' = {} /\ ~is_running' /\ ~s_running')]_vars
    /\ [][(Live = {} /\ Live' # {}) => (start_finish \/ initialize)]_vars
    /\ [][(current_sends' # current_sends
            \/ \E i \in 1..Len(queue') : i > Len(queue) /\ queue'[i].chat_id \in Groups)
            => Live # {}]_vars

\* stop() has cancelled a loop that had enqueued jobs and counted a cycle,
\* and is about to return
C18_Witness ==
    /\ s_lock = "stop" /\ Live = {} /\ is_running
    /\ current_sends > 0 /\ accepted > 0


\* C19: sent_count changes only at the end of a cycle, by exactly 1,
\* whatever was enqueued, skipped or turned away by the full queue; the
\* increment follows the last destination at once, drained queue or not.
C19_OneCountPerCycle ==
    /\ [][current_sends' # current_sends
            => (current_sends' = current_sends + 1 /\ \E t \in TaskIds : run_increment(t))]_vars
    /\ [](\A t \in TaskIds :
            /\ (tasks[t].pc = "loop" /\ tasks[t].snap = <<>>) => ENABLED run_increment(t)
            /\ tasks[t].pc = "loop" => current_sends = tasks[t].begun - 1
            /\ tasks[t].pc \in {"top", "sleep", "auto"} => current_sends = tasks[t].begun)

\* the second cycle over two destinations is at its end: one destination
\* was skipped, one was turned away by the full queue, which still holds
\* jobs of the first cycle
C19_Witness ==
    /\ \E t \in TaskIds : tasks[t].pc = "loop" /\ tasks[t].snap = <<>> /\ tasks[t].begun = 2
    /\ Len(queue) = MaxSize /\ accepted = 2
    /\ \E c \in Groups : groups[c].error_count > 0

\* C20: while the persisted running flag is false, a step of the loop
\* enqueues nothing, leaves sent_count and the destinations as they are,
\* and the loop is only polling: it sleeps and reads the flag again.
C20_IdleWhileNotRunning ==
    /\ [](~is_running => \A t \in TaskIds : tasks[t].pc \in {"none", "top", "sleep"})
    /\ [][\A t \in TaskIds :
            (~is_running /\ SchedStep(t))
                => /\ UNCHANGED <<queue, accepted, current_sends, groups, is_running>>
                   /\ tasks[t].pc = "top" => tasks'[t].pc = "sleep"]_vars

\* the loop sleeps after a pass that found the flag false, with an
\* advertisement and an active destination at hand
C20_Witness ==
    /\ proc = "up" /\ s_running /\ ~is_running
    /\ \E t \in TaskIds : tasks[t].pc = "sleep"
    /\ ad # "none" /\ ActiveGroups # {} /\ ~LimitReached

\* C21: a pass of the loop that finds no active advertisement or no active
\* destination enqueues nothing, leaves sent_count, the running flag and
\* the scheduler as they are, and puts the loop to sleep before it retries.
C21_NothingToSendWaits ==
    [][\A t \in TaskIds :
        (/\ SchedStep(t) /\ tasks[t].pc = "top" /\ is_running /\ ~LimitReached
         /\ (ad = "none" \/ ActiveGroups = {}))
            => /\ tasks'[t].pc = "sleep"
               /\ UNCHANGED <<queue, accepted, current_sends, is_running, s_running, groups>>]_vars

\* the loop sleeps after a pass that found destinations but no advertisement
C21_Witness ==
    /\ proc = "up" /\ is_running /\ s_running /\ ~LimitReached
    /\ ad = "none" /\ ActiveGroups # {}
    /\ \E t \in TaskIds : tasks[t].pc = "sleep"

\* C22 as stated: a destination answered "not admin" gets a recorded failure
\* and no job in that pass, and a destination answered "admin" gets a job
\* enqueued.
C22_AdminGetsJob ==
    [][\A t \in TaskIds : \A a \in BOOLEAN :
        (s_running /\ run_group(t, a)) =>
            LET c == Head(tasks[t].snap).chat_id IN
            IF ~a
            THEN /\ groups' = update_group_error(groups, c)
                 /\ UNCHANGED <<queue, accepted>>
            ELSE queue' = Append(queue, NewJob(c, ad))]_vars

\* C22: a destination answered "not admin" gets a recorded failure and no
\* job in that pass; a destination answered "admin" gets a job enqueued
\* when the queue has room, and none when the queue is full.
C22_AdminGetsJobIfRoom ==
    [][\A t \in TaskIds : \A a \in BOOLEAN :
        (s_running /\ run_group(t, a)) =>
            LET c == Head(tasks[t].snap).chat_id IN
            IF ~a
            THEN /\ groups' = update_group_error(groups, c)
                 /\ UNCHANGED <<queue, accepted>>
            ELSE IF Len(queue) < MaxSize
                 THEN queue' = Append(queue, NewJob(c, ad))
                 ELSE UNCHANGED <<queue, accepted>>]_vars

\* one pass over two destinations: one was answered "not admin" and has a
\* failure on record, the other was answered "admin" and has its job queued
C22_Witness ==
    \E t \in TaskIds : \E c, d \in Groups :
        /\ c # d
        /\ tasks[t].pc = "loop" /\ tasks[t].snap = <<>> /\ tasks[t].begun = 1
        /\ groups[c].error_count = 1
        /\ groups[d].error_count = 0
        /\ \E i \in 1..Len(queue) : queue[i].chat_id = d
        /\ \A i \in 1..Len(queue) : queue[i].chat_id # c

\* C23: a job that keeps failing transiently is presented to the gateway at
\* most 3 times in total.  A job starts with retries = 0 and every
\* re-enqueue adds one, so a job being posted with retries = n is at its
\* (n + 1)-th presentation.
C23_AtMostThreePresentations ==
    \A w \in Workers : workers[w].st = "post" => workers[w].job.retries + 1 <= 3

\* C24: every job taken off the queue, whatever its kind (text, photo,
\* video, document), is presented to the gateway by the worker that took
\* it, with the job's own destination and kind; no kind lacks a handler.
C24_EveryKindPresented ==
    [][(queue # <<>> /\ queue' = Tail(queue))
        => \E w \in Workers : /\ workers[w].st = "idle"
                              /\ workers'[w].st = "post"
                              /\ workers'[w].job = Head(queue)]_vars

\* ---------------------------------------------------------------- LRUCache
\* The admission cache of the scheduler, LRUCache(max_size, ttl), with the
\* keys f"admin_{c}" written c and "bot_id" written BotIdKey; the values
\* are "True", "False" and "bot" (the bot's id), and "None" is a miss.
Ttl == 2

CacheMax == 2

MaxTime == 4

BotIdKey == 0

Has(lc, k) == \E i \in 1..Len(lc.cache) : lc.cache[i].key = k

Item(lc, k) == lc.cache[CHOOSE i \in 1..Len(lc.cache) : lc.cache[i].key = k]

KeysOf(lc) == {lc.cache[i].key : i \in 1..Len(lc.cache)}

\* a move_to_end that leaves the order as it is
move_to_end_skipped(lc, k) == lc

\* self._cache.move_to_end(key)
move_to_end(lc, k) ==
    [lc EXCEPT !.cache = Append(SelectSeq(lc.cache, LAMBDA e : e.key # k), Item(lc, k))]

\* delete(key): del self._cache[key]; del self._timestamps[key]
delete(lc, k) ==
    [cache |-> SelectSeq(lc.cache, LAMBDA e : e.key # k),
     timestamps |-> [lc.timestamps EXCEPT ![k] = NoStamp]]

\* get(key) at time t: the cache afterwards and the value returned
get(lc, k, t) ==
    IF ~Has(lc, k)
    THEN [lc |-> lc, value |-> "None"]
    ELSE IF t - lc.timestamps[k] > Ttl
         THEN [lc |-> delete(lc, k), value |-> "None"]
         ELSE [lc |-> move_to_end(lc, k), value |-> Item(lc, k).value]

\* set(key, value) at time t
set(lc, k, v, t) ==
    LET a == IF Has(lc, k)
             THEN move_to_end(lc, k)
             ELSE IF Len(lc.cache) >= CacheMax
                  THEN delete(lc, lc.cache[1].key)
                  ELSE lc
    IN [cache |-> IF Has(a, k)
                  THEN [i \in 1..Len(a.cache) |->
                            IF a.cache[i].key = k THEN [key |-> k, value |-> v]
                                                  ELSE a.cache[i]]
                  ELSE Append(a.cache, [key |-> k, value |-> v]),
        timestamps |-> [a.timestamps EXCEPT ![k] = t]]

\* key k has just been read by get or written by set
Used(r, k) == Append(SelectSeq(r, LAMBDA x : x # k), k)

call_get(k) ==
    LET g == get(admin_cache, k, now) IN
    /\ admin_cache' = g.lc
    /\ recency' = IF g.value # "None" THEN Used(recency, k) ELSE recency
    /\ ret' = [op |-> "get", key |-> k, value |-> g.value, lookups |-> {}]
    /\ UNCHANGED <<now, appVars, poolVars>>

call_set(k, v) ==
    /\ admin_cache' = set(admin_cache, k, v, now)
    /\ recency' = Used(recency, k)
    /\ ret' = [op |-> "set", key |-> k, value |-> "None", lookups |-> {}]
    /\ UNCHANGED <<now, appVars, poolVars>>

call_delete(k) ==
    /\ admin_cache' = delete(admin_cache, k)
    /\ ret' = [op |-> "delete", key |-> k, value |-> "None", lookups |-> {}]
    /\ UNCHANGED <<now, recency, appVars, poolVars>>

\* time.time() moves on
time_passes ==
    /\ now < MaxTime
    /\ now' = now + 1
    /\ UNCHANGED <<admin_cache, recency, ret, appVars, poolVars>>

\* _check_admin_cached(c).  me is the outcome of getMe ("ok" or "fail"),
\* member the outcome of getChatMember: a status, or "fail" for an answer
\* that is not ok or an exception.
check_admin_cached(c, me, member) ==
    LET g == get(admin_cache, c, now)
        b == get(g.lc, BotIdKey, now)
        haveId == b.value # "None" \/ me = "ok"
        withId == IF b.value = "None" /\ me = "ok"
                  THEN set(b.lc, BotIdKey, "bot", now)
                  ELSE b.lc
        asked == IF b.value = "None" THEN {"getMe"} ELSE {}
        is_admin == IF member \in {"administrator", "creator"} THEN "True" ELSE "False"
    IN
    /\ IF g.value # "None"
       THEN /\ admin_cache' = g.lc
            /\ recency' = Used(recency, c)
            /\ ret' = [op |-> "check", key |-> c, value |-> g.value, lookups |-> {}]
       ELSE IF ~haveId
       THEN /\ admin_cache' = b.lc
            /\ recency' = recency
            /\ ret' = [op |-> "check", key |-> c, value |-> "False", lookups |-> asked]
       ELSE IF member = "fail"
       THEN /\ admin_cache' = withId
            /\ recency' = Used(recency, BotIdKey)
            /\ ret' = [op |-> "check", key |-> c, value |-> "False",
                       lookups |-> asked \cup {"getChatMember"}]
       ELSE /\ admin_cache' = set(withId, c, is_admin, now)
            /\ recency' = Used(Used(recency, BotIdKey), c)
            /\ ret' = [op |-> "check", key |-> c, value |-> is_admin,
                       lookups |-> asked \cup {"getChatMember"}]
    /\ UNCHANGED <<now, appVars, poolVars>>

InitCache ==
    /\ InitDb /\ InitVolatile /\ InitHistory /\ InitLib
    /\ ad = "text"
    /\ max_sends = 0
    /\ proc = "up"

NextCache ==
    \/ (\E k \in CacheKeys : call_get(k))
    \/ (\E k \in CacheKeys : \E v \in {"True", "False"} : call_set(k, v))
    \/ (\E k \in CacheKeys : call_delete(k))
    \/ (\E c \in Groups : \E me \in {"ok", "fail"} :
            \E member \in {"administrator", "member", "fail"} : check_admin_cached(c, me, member))
    \/ time_passes

SpecCache == InitCache /\ [][NextCache]_vars

\* C25: check(c) returns the cached status without a gateway call when an
\* entry for c exists and is not older than the TTL; otherwise it calls the
\* membership lookup, caches the result under c at the current time and
\* returns what it cached.
C25_CachedOrLookedUp ==
    [][\A c \in Groups :
        (\E me \in {"ok", "fail"} : \E member \in {"administrator", "member", "fail"} :
            check_admin_cached(c, me, member))
        => IF Has(admin_cache, c) /\ now - admin_cache.timestamps[c] <= Ttl
           THEN /\ ret'.value = Item(admin_cache, c).value
                /\ ret'.lookups = {}
           ELSE /\ "getChatMember" \in ret'.lookups
                /\ Has(admin_cache', c)
                /\ Item(admin_cache', c).value = ret'.value
                /\ admin_cache'.timestamps[c] = now]_vars

\* the key of the cache that was read or written least recently
LRUKey ==
    CHOOSE k \in KeysOf(admin_cache) :
        \A j \in KeysOf(admin_cache) :
            \A m, n \in 1..Len(recency) : (recency[m] = k /\ recency[n] = j) => m <= n

C26_SizeBounded == Len(admin_cache.cache) <= CacheMax

C26_EvictsLRU ==
    [][\A k \in CacheKeys : \A v \in {"True", "False"} :
        (call_set(k, v) /\ ~Has(admin_cache, k) /\ Len(admin_cache.cache) = CacheMax)
            => KeysOf(admin_cache') = (KeysOf(admin_cache) \ {LRUKey}) \cup {k}]_vars

\* C26: whatever get, set and delete calls are made, the cache never holds
\* more than max_size entries, and a set of a new key into a full cache
\* evicts exactly one entry, the one least recently read by get or written
\* by set.
C26_BoundedAndLRU == []C26_SizeBounded /\ C26_EvictsLRU

\* a set has just evicted an entry that was written before, and read after,
\* the entry that stayed
C26_Witness ==
    /\ ret.op = "set"
    /\ Len(admin_cache.cache) = CacheMax
    /\ Len(recency) = CacheMax + 1
    /\ ~Has(admin_cache, recency[1])
    /\ admin_cache.timestamps[recency[2]] < now
    /\ admin_cache.timestamps[recency[3]] = now

\* C27: a destination record is created or reactivated only by a
\* registration in which the gateway confirmed that the bot is
\* administrator or creator; a registration whose chat lookup or membership
\* lookup failed, or whose status is anything else, leaves the Destination
\* Store as it was.
C27_RegisteredOnlyWhenConfirmed ==
    [][\A c \in Groups :
        /\ (groups'[c].is_active /\ ~(groups[c].reg /\ groups[c].is_active))
              => \E title \in Titles : add_group(c, TRUE, title)
        /\ (\E title \in Titles : add_group(c, FALSE, title))
              => UNCHANGED <<groups, listing>>]_vars

\* one registration was confirmed and stored, and the operator was answered
C27_Witness ==
    /\ proc = "up"
    /\ \E c, d \in Groups : groups[c].reg /\ groups[c].is_active /\ ~groups[d].reg
    /\ accepted >= 1

\* ------------------------------------------- SpecStop: stopping the queue
\* _worker: wait_for(get(), 1.0) times out on an empty queue, and
\* "while self._running" ends the worker once stop() has cleared the flag
worker_exit(w) ==
    /\ workers[w].st = "idle"
    /\ ~q_running
    /\ queue = <<>>
    /\ SetWorker(w, "dead", NoJob)
    /\ UNCHANGED <<dbVars, proc, schedVars, q_running, queue, stats, accepted, rejects,
                   consec, wasRunning, libVars>>

\* queue.stop(): self._queue.join() returns once task_done() has been
\* called for every job; the workers are cancelled, the session and the
\* database are closed, and shutdown() returns
shutdown_queue_joined ==
    /\ proc = "sd_join"
    /\ InFlight = 0
    /\ proc' = "down"
    /\ ResetVolatile
    /\ UNCHANGED <<dbVars, consec, wasRunning, libVars>>

InitStop == InitQueue /\ ad = "text"

NextStop ==
    \/ (\E c \in Chats : produce(c))
    \/ (\E w \in Workers : WorkerStep(w))
    \/ (\E w \in Workers : worker_exit(w))
    \/ tick
    \/ shutdown_begin \/ shutdown_stop_noop
    \/ shutdown_queue_empty \/ shutdown_queue_join \/ shutdown_queue_joined

SpecStop == InitStop /\ [][NextStop]_vars

\* The event loop runs every worker that is ready, time passes, and a
\* shutdown() that has begun goes on whenever it is not waiting.
FairStop ==
    /\ SpecStop
    /\ \A w \in Workers : WF_vars(WorkerStep(w)) /\ WF_vars(worker_exit(w))
    /\ WF_vars(tick)
    /\ WF_vars(shutdown_stop_noop)
    /\ WF_vars(shutdown_queue_empty \/ shutdown_queue_join)
    /\ WF_vars(shutdown_queue_joined)

\* C28: a queue.stop() that finds jobs in the queue processes them and
\* then returns, with the queue empty and all workers ended.
C28_StopReturns ==
    (proc = "sd_join") ~> (proc = "down" /\ queue = <<>> /\ \A w \in Workers : workers[w].st = "dead")

\* C29: the worker pool never deadlocks: in no reachable state is every
\* worker blocked putting a retried job back into a full queue (from such
\* a state no worker ever dequeues again, although the queue is non-empty
\* and running).
C29_NoWorkerDeadlock ==
    ~(/\ q_running
      /\ Len(queue) = MaxSize
      /\ \A w \in Workers : workers[w].st = "put")

\* ------------------------------------------------------- AsyncDatabasePool
\* Connections are numbered in the order aiosqlite.connect made them.
\* A caller is a task that uses the pool: it is outside ("out"), waiting
\* for self._lock in initialize() ("lock"), making the connections
\* ("make"), waiting in self._pool.get() ("get") or inside the scope of
\* acquire() with a connection ("in").
MaxConnections == 2

SetCaller(p, r) == callers' = [callers EXCEPT ![p] = r]

\* where a caller goes when initialize() returns: on to self._pool.get()
\* inside acquire(), or back to startup()
Initialized(p, via) ==
    IF via = "acquire"
    THEN [callers[p] EXCEPT !.pc = "get", !.via = via, !.i = 0]
    ELSE [callers[p] EXCEPT !.pc = "out", !.via = "none", !.i = 0]

\* an initialize() without the second test
InitializedUnderLock_unchecked == FALSE

\* "if self._initialized: return" once the lock is held
InitializedUnderLock == db_pool.initialized

\* acquire() is entered (via = "acquire"), or startup() calls
\* initialize() (via = "startup"): the first test of self._initialized
call(p, via) ==
    /\ callers[p].pc = "out"
    /\ IF db_pool.initialized
       THEN SetCaller(p, Initialized(p, via))
       ELSE SetCaller(p, [callers[p] EXCEPT !.pc = "lock", !.via = via])
    /\ UNCHANGED <<db_pool, appVars, cacheVars>>

\* async with self._lock: the lock is free and the caller gets it
take_lock(p) ==
    /\ callers[p].pc = "lock"
    /\ db_pool.lock = 0
    /\ IF InitializedUnderLock
       THEN /\ SetCaller(p, Initialized(p, callers[p].via))
            /\ db_pool' = [db_pool EXCEPT !.contended = TRUE]
       ELSE /\ SetCaller(p, [callers[p] EXCEPT !.pc = "make", !.i = 0])
            /\ db_pool' = [db_pool EXCEPT !.lock = p]
    /\ UNCHANGED <<appVars, cacheVars>>

\* one pass of "for i in range(self.max_connections)": connect, put.
\* An initialization that has begun runs to its end: connect does not
\* fail and the caller is not cancelled while it holds the lock.
connect(p) ==
    /\ callers[p].pc = "make"
    /\ callers[p].i < MaxConnections
    /\ db_pool' = [db_pool EXCEPT !.made = @ + 1, !.pool = Append(@, db_pool.made + 1)]
    /\ SetCaller(p, [callers[p] EXCEPT !.i = @ + 1])
    /\ UNCHANGED <<appVars, cacheVars>>

\* self._initialized = True, and the lock is released
initialized(p) ==
    /\ callers[p].pc = "make"
    /\ callers[p].i = MaxConnections
    /\ db_pool' = [db_pool EXCEPT !.initialized = TRUE, !.lock = 0]
    /\ SetCaller(p, Initialized(p, callers[p].via))
    /\ UNCHANGED <<appVars, cacheVars>>

\* conn = await self._pool.get(); yield conn
acquire(p) ==
    /\ callers[p].pc = "get"
    /\ db_pool.pool # <<>>
    /\ db_pool' = [db_pool EXCEPT !.pool = Tail(@)]
    /\ SetCaller(p, [callers[p] EXCEPT !.pc = "in", !.conn = Head(db_pool.pool)])
    /\ UNCHANGED <<appVars, cacheVars>>

\* the scope is left, by its end ("return"), an exception or a
\* cancellation: finally: await self._pool.put(conn)
release(p, how) ==
    /\ callers[p].pc = "in"
    /\ db_pool' = [db_pool EXCEPT !.pool = Append(@, callers[p].conn)]
    /\ SetCaller(p, [Outside EXCEPT !.last = how])
    /\ UNCHANGED <<appVars, cacheVars>>

\* the caller is cancelled while it waits for the lock or in get()
cancel_waiting(p) ==
    /\ callers[p].pc \in {"lock", "get"}
    /\ SetCaller(p, [Outside EXCEPT !.last = callers[p].last])
    /\ UNCHANGED <<db_pool, appVars, cacheVars>>

\* close_all(): every connection that is in the pool is taken and closed
close_all ==
    /\ db_pool.initialized
    /\ db_pool.pool # <<>>
    /\ db_pool' = [db_pool EXCEPT
            !.closed = @ \cup {db_pool.pool[i] : i \in 1..Len(db_pool.pool)},
            !.pool = <<>>]
    /\ UNCHANGED <<callers, appVars, cacheVars>>

InitPool ==
    /\ InitDb /\ InitVolatile /\ InitHistory /\ InitLib
    /\ ad = "text"
    /\ max_sends = 0
    /\ proc = "down"

NextPool ==
    \/ (\E p \in Callers : \E via \in {"acquire", "startup"} : call(p, via))
    \/ (\E p \in Callers : take_lock(p))
    \/ (\E p \in Callers : connect(p))
    \/ (\E p \in Callers : initialized(p))
    \/ (\E p \in Callers : acquire(p))
    \/ (\E p \in Callers : \E how \in {"return", "exception", "cancel"} : release(p, how))
    \/ (\E p \in Callers : cancel_waiting(p))
    \/ close_all

SpecPool == InitPool /\ [][NextPool]_vars

Idle == {db_pool.pool[i] : i \in 1..Len(db_pool.pool)}

Holders == {p \in Callers : callers[p].pc = "in"}

Held == {callers[p].conn : p \in Holders}

\* once initialized, exactly max_connections connections were made, and
\* each of them is in exactly one place: idle in the pool, held by exactly
\* one caller, or closed by close_all
C30_Conserved ==
    db_pool.initialized =>
        /\ db_pool.made = MaxConnections
        /\ Idle \cup Held \cup db_pool.closed = 1..MaxConnections
        /\ Len(db_pool.pool) + Cardinality(Holders) + Cardinality(db_pool.closed) = MaxConnections
        /\ db_pool.closed = {} => Len(db_pool.pool) + Cardinality(Holders) = MaxConnections

\* every way out of the scope puts the caller's connection back
C30_Released ==
    [][\A p \in Callers :
        (callers[p].pc = "in" /\ callers'[p].pc # "in")
            => db_pool'.pool = Append(db_pool.pool, callers[p].conn)]_vars

====
